---- MODULE Spec2Model ----
(***************************************************************************)
(* A model of the vector-math library (Vector2, Vector3, Vector4).          *)
(*                                                                         *)
(* The three classes have the same code at three arities, so the model is   *)
(* written once over the arity vt (2, 3 or 4); the only differences are the *)
(* default of Vector4's w (1), the named accessors each class has, and      *)
(* Cross (Vector2 and Vector3 only).                                        *)
(*                                                                         *)
(* Numbers.  A JavaScript number is modelled as a pair <<n, d>>: the exact  *)
(* rational n/d in lowest terms with d > 0, or, with d = 0, one of the      *)
(* IEEE-754 specials: <<1, 0>> is +Infinity, <<-1, 0>> is -Infinity and     *)
(* <<0, 0>> is NaN.  Arithmetic is exact, so the model agrees with the      *)
(* double arithmetic of the code wherever the results are exactly           *)
(* representable; the sign of a zero is not modelled (every zero is +0).    *)
(* The value `undefined` (an omitted argument) is the empty tuple.          *)
(***************************************************************************)
EXTENDS Integers, Sequences, FiniteSets, TLC

VARIABLES vt, heap, known, hist

vars == <<vt, heap, known, hist>>

----------------------------------------------------------------------------
(* Numbers *)

Undefined == <<>>

NaN == <<0, 0>>

Infinity == <<1, 0>>

NegInfinity == <<-1, 0>>

Abs(i) == IF i < 0 THEN -i ELSE i

Sign(i) == IF i > 0 THEN 1 ELSE IF i < 0 THEN -1 ELSE 0

RECURSIVE Gcd(_, _)
Gcd(a, b) == IF b = 0 THEN a ELSE Gcd(b, a % b)

\* The number n/d: lowest terms, positive denominator; n/0 is an infinity
\* of n's sign, 0/0 is NaN.
Norm(n, d) ==
    IF d = 0 THEN <<Sign(n), 0>>
    ELSE LET g == Gcd(Abs(n), Abs(d))
         IN  <<(Sign(d) * n) \div g, Abs(d) \div g>>

Num(i) == <<i, 1>>

IsNaN(a) == a = NaN

IsFinite(a) == a[2] # 0

\* JavaScript's truthiness of an argument: undefined, 0 and NaN are falsy.
Truthy(a) == a # Undefined /\ a[1] # 0

fNeg(a) == <<-a[1], a[2]>>

\* a + b, over the least common denominator.  Infinity + -Infinity is NaN.
fAdd(a, b) ==
    IF IsNaN(a) \/ IsNaN(b) THEN NaN
    ELSE IF a[2] = 0 /\ b[2] = 0 THEN (IF a = b THEN a ELSE NaN)
    ELSE IF a[2] = 0 THEN a
    ELSE IF b[2] = 0 THEN b
    ELSE LET g == Gcd(a[2], b[2])
         IN  Norm(a[1] * (b[2] \div g) + b[1] * (a[2] \div g), (a[2] \div g) * b[2])

fSub(a, b) == fAdd(a, fNeg(b))

\* a * b.  0 * Infinity is NaN (0 * 1 over 1 * 0).
fMul(a, b) == Norm(a[1] * b[1], a[2] * b[2])

\* 1 / b.  1 / 0 is +Infinity, 1 / Infinity is 0.
Recip(b) ==
    IF b[1] > 0 THEN <<b[2], b[1]>>
    ELSE IF b[1] < 0 THEN <<-b[2], -b[1]>>
    ELSE IF b[2] = 0 THEN NaN ELSE Infinity

\* a / b.  c / 0 is an infinity of c's sign, 0 / 0 is NaN.
fDiv(a, b) == fMul(a, Recip(b))

\* a < b; false when either is NaN.
fLt(a, b) ==
    IF IsNaN(a) \/ IsNaN(b) THEN FALSE
    ELSE IF a[2] = 0 /\ b[2] = 0 THEN a[1] < b[1]
    ELSE IF a[2] = 0 THEN a[1] < 0
    ELSE IF b[2] = 0 THEN b[1] > 0
    ELSE a[1] * b[2] < b[1] * a[2]

fGt(a, b) == fLt(b, a)

\* a === b on numbers: NaN is not equal to itself.
fEq(a, b) == ~IsNaN(a) /\ ~IsNaN(b) /\ a = b

fGe(a, b) == fGt(a, b) \/ fEq(a, b)

fLe(a, b) == fLt(a, b) \/ fEq(a, b)

\* The largest r with r * r <= k, by bisection on lo..hi.  The root of a
\* 32-bit integer is below MaxRoot.
RECURSIVE ISqrtIn(_, _, _)
ISqrtIn(k, lo, hi) ==
    IF lo >= hi THEN lo
    ELSE LET mid == (lo + hi + 1) \div 2
         IN  IF mid * mid <= k THEN ISqrtIn(k, mid, hi)
             ELSE ISqrtIn(k, lo, mid - 1)

MaxRoot == 46340

ISqrt(k) == ISqrtIn(k, 0, IF k < MaxRoot THEN k ELSE MaxRoot)

\* The denominators Math.sqrt is rounded to when the root is irrational.
SqrtScale == 100

\* Math.sqrt(a): exact when a is the square of a rational; otherwise the
\* root rounded down to a multiple of 1 / SqrtScale (a double rounds at 53
\* bits; the model keeps two decimal digits, which keeps the
\* intermediate products within TLC's 32-bit integers).  NaN for a negative number.
fSqrt(a) ==
    IF IsNaN(a) \/ a[1] < 0 THEN NaN
    ELSE IF a[2] = 0 THEN Infinity
    ELSE LET rn == ISqrt(a[1])
             rd == ISqrt(a[2])
         IN  IF rn * rn = a[1] /\ rd * rd = a[2] THEN Norm(rn, rd)
             ELSE Norm(ISqrt((a[1] * SqrtScale * SqrtScale) \div a[2]), SqrtScale)

----------------------------------------------------------------------------
(* Values and the heap *)

(***************************************************************************)
(* heap is the sequence of the vector instances created so far; an          *)
(* instance is its index and heap[i] its components <<x, y [, z [, w]]>>.   *)
(* Every instance the code creates is on the heap, the temporaries of       *)
(* DoLerp and Distance included; known is the set of instances the caller   *)
(* holds a reference to.  A value passed to or returned from a call is a    *)
(* record: a reference to an instance, a number, or nothing (void).         *)
(***************************************************************************)
Ref(i) == [k |-> "vec", id |-> i, v |-> Undefined]

Number(x) == [k |-> "num", id |-> 0, v |-> x]

Void == [k |-> "void", id |-> 0, v |-> Undefined]

\* What a call leaves: the heap after it and the value it returns.
Result(h, r) == [h |-> h, ret |-> r]

\* The component an operand `rhs: Vector | number` contributes at index i:
\* the number itself (typeof rhs === "number"), else rhs's i-th component.
Comp(h, rhs, i) == IF rhs.k = "num" THEN rhs.v ELSE h[rhs.id][i]

Idx == 1..vt

\* Mutant of Default: every field initialised like Vector4's w.
DefaultOne(i) == Num(1)

\* The field initialisers: x = 0, y = 0, z = 0 and, in Vector4, w = 1.
Default(i) == IF i = 4 THEN Num(1) ELSE Num(0)

\* Mutant of constructor: a component is stored whenever its argument is
\* supplied (`if (x !== undefined) this.x = x`).
StoreAlways(h, args) ==
    Result(Append(h, [i \in Idx |-> IF args[i] = Undefined THEN Default(i) ELSE args[i]]),
           Ref(Len(h) + 1))

\* new VectorN(args): a component is stored only when its argument is truthy.
constructor(h, args) ==
    Result(Append(h, [i \in Idx |-> IF Truthy(args[i]) THEN args[i] ELSE Default(i)]),
           Ref(Len(h) + 1))

----------------------------------------------------------------------------
(* Named accessors *)

AccessorNames ==
    IF vt = 4 THEN {"one", "zero", "negativeInfinity", "positiveInfinity"}
    ELSE {"right", "left", "up", "down", "one", "zero",
          "negativeInfinity", "positiveInfinity"}
         \cup (IF vt = 3 THEN {"forward", "back"} ELSE {})

\* The arguments each getter passes to the constructor (the first vt of them).
AccessorArgs(name) ==
    CASE name = "right" -> <<Num(1), Num(0), Num(0)>>
      [] name = "left" -> <<Num(-1), Num(0), Num(0)>>
      [] name = "up" -> <<Num(0), Num(1), Num(0)>>
      [] name = "down" -> <<Num(0), Num(-1), Num(0)>>
      [] name = "forward" -> <<Num(0), Num(0), Num(1)>>
      [] name = "back" -> <<Num(0), Num(0), Num(-1)>>
      [] name = "one" -> <<Num(1), Num(1), Num(1), Num(1)>>
      [] name = "zero" -> <<Num(0), Num(0), Num(0), Num(0)>>
      [] name = "negativeInfinity" ->
             <<NegInfinity, NegInfinity, NegInfinity, NegInfinity>>
      [] name = "positiveInfinity" ->
             <<Infinity, Infinity, Infinity, Infinity>>

\* Mutant of Accessor: the getter caches its vector and returns the cached
\* instance on later reads.
AccessorShared(h, name) ==
    LET prior == {i \in 1..Len(hist) : hist[i].op = name}
    IN  IF prior # {}
        THEN Result(h, hist[CHOOSE i \in prior : \A j \in prior : i <= j].ret)
        ELSE constructor(h, [i \in Idx |-> AccessorArgs(name)[i]])

\* static get <name>(): return new VectorN(...).
Accessor(h, name) == constructor(h, [i \in Idx |-> AccessorArgs(name)[i]])

----------------------------------------------------------------------------
(* Static arithmetic: each returns a new instance built by the constructor  *)

Add(h, a, b) == constructor(h, [i \in Idx |-> fAdd(h[a][i], Comp(h, b, i))])

Subtract(h, a, b) == constructor(h, [i \in Idx |-> fSub(h[a][i], Comp(h, b, i))])

\* Mutant of Multiply: the products are stored as they are, NaN included.
MultiplyUnfiltered(h, a, b) == StoreAlways(h, [i \in Idx |-> fMul(h[a][i], Comp(h, b, i))])

Multiply(h, a, b) == constructor(h, [i \in Idx |-> fMul(h[a][i], Comp(h, b, i))])

Divide(h, a, b) == constructor(h, [i \in Idx |-> fDiv(h[a][i], Comp(h, b, i))])

----------------------------------------------------------------------------
(* Derived properties *)

\* x1*y1 + x2*y2 [+ x3*y3 [+ x4*y4]], summed left to right.
SumProducts(u, w) ==
    LET p(i) == fMul(u[i], w[i])
    IN  IF vt = 2 THEN fAdd(p(1), p(2))
        ELSE IF vt = 3 THEN fAdd(fAdd(p(1), p(2)), p(3))
        ELSE fAdd(fAdd(fAdd(p(1), p(2)), p(3)), p(4))

magnitude(h, v) == fSqrt(SumProducts(h[v], h[v]))

\* Mutant of sqrMagnitude: the squared length its name and doc comment
\* announce.
sqrMagnitudeSquared(h, v) == SumProducts(h[v], h[v])

sqrMagnitude(h, v) == fSqrt(magnitude(h, v))

\* Mutant of normalized: the receiver is divided in place and returned.
normalizedInPlace(h, v) ==
    LET mag == magnitude(h, v)
    IN  IF fGt(mag, Num(0))
        THEN Result([h EXCEPT ![v] = [i \in Idx |-> fDiv(h[v][i], mag)]], Ref(v))
        ELSE Accessor(h, "zero")

normalized(h, v) ==
    LET mag == magnitude(h, v)
    IN  IF fGt(mag, Num(0))
        THEN constructor(h, [i \in Idx |-> fDiv(h[v][i], mag)])
        ELSE Accessor(h, "zero")

----------------------------------------------------------------------------
(* Static queries *)

\* Mutant of Dot: the right operand is ignored.
DotLhsSquare(h, lhs, rhs) == SumProducts(h[lhs], h[lhs])

Dot(h, lhs, rhs) == SumProducts(h[lhs], h[rhs])

Magnitude(h, v) == magnitude(h, v)

\* Math.acos(x) * (180 / Math.PI) is not computed: the result is kept as
\* the term acos-in-degrees of x.
AcosDegrees(x) == [k |-> "acosdeg", id |-> 0, v |-> x]

Angle(h, from, to) ==
    AcosDegrees(fDiv(Dot(h, from, to), fMul(magnitude(h, from), magnitude(h, to))))

\* Subtract(a, b).magnitude: the difference is a temporary instance.
Distance(h, a, b) ==
    LET d == Subtract(h, a, Ref(b))
    IN  Result(d.h, Number(magnitude(d.h, d.ret.id)))

\* Mutant of Cross: the products are added instead of subtracted.
CrossSum(h, lhs, rhs) ==
    LET l == h[lhs]
        r == h[rhs]
    IN  IF vt = 2
        THEN constructor(h, <<fAdd(fMul(l[1], r[2]), fMul(r[1], l[2])), Undefined>>)
        ELSE constructor(h, <<fAdd(fMul(l[2], r[3]), fMul(l[3], r[2])),
                              fAdd(fMul(l[3], r[1]), fMul(l[1], r[3])),
                              fAdd(fMul(l[1], r[2]), fMul(l[2], r[1]))>>)

\* Mutant of Cross: the left-handed product, each difference the other way.
CrossLeftHanded(h, lhs, rhs) ==
    LET l == h[lhs]
        r == h[rhs]
    IN  IF vt = 2
        THEN constructor(h, <<fSub(fMul(r[1], l[2]), fMul(l[1], r[2])), Undefined>>)
        ELSE constructor(h, <<fSub(fMul(l[3], r[2]), fMul(l[2], r[3])),
                              fSub(fMul(l[1], r[3]), fMul(l[3], r[1])),
                              fSub(fMul(l[2], r[1]), fMul(l[1], r[2]))>>)

\* Vector3: the three components; Vector2: new Vector2(lhs.x*rhs.y - rhs.x*lhs.y).
Cross(h, lhs, rhs) ==
    LET l == h[lhs]
        r == h[rhs]
    IN  IF vt = 2
        THEN constructor(h, <<fSub(fMul(l[1], r[2]), fMul(r[1], l[2])), Undefined>>)
        ELSE constructor(h, <<fSub(fMul(l[2], r[3]), fMul(l[3], r[2])),
                              fSub(fMul(l[3], r[1]), fMul(l[1], r[3])),
                              fSub(fMul(l[1], r[2]), fMul(l[2], r[1]))>>)

Max(h, lhs, rhs) ==
    constructor(h, [i \in Idx |-> IF fGe(h[lhs][i], h[rhs][i]) THEN h[lhs][i] ELSE h[rhs][i]])

Min(h, lhs, rhs) ==
    constructor(h, [i \in Idx |-> IF fLe(h[lhs][i], h[rhs][i]) THEN h[lhs][i] ELSE h[rhs][i]])

ClampMagnitude(h, v, maxLength) ==
    LET mag == magnitude(h, v)
        multiplier == IF fGt(mag, maxLength) THEN fDiv(maxLength, mag) ELSE Num(1)
    IN  constructor(h, [i \in Idx |-> fMul(h[v][i], multiplier)])

----------------------------------------------------------------------------
(* Interpolation *)

\* Mutant of DoLerp: a is moved in place (a.Add(multiplied)) and returned.
DoLerpInPlace(h, a, b, t) ==
    Result([h EXCEPT ![a] = [i \in Idx |-> fAdd(h[a][i], fMul(fSub(h[b][i], h[a][i]), t))]],
           Ref(a))

\* subtracted = Subtract(b, a); multiplied = Multiply(subtracted, t);
\* added = Add(a, multiplied): three new instances, the last one returned.
DoLerp(h, a, b, t) ==
    LET subtracted == Subtract(h, b, Ref(a))
        multiplied == Multiply(subtracted.h, subtracted.ret.id, Number(t))
    IN  Add(multiplied.h, a, multiplied.ret)

\* Mutant of Lerp: out of range, a copy of the argument is returned.
LerpCopies(h, a, b, t) ==
    IF fLt(t, Num(0)) THEN constructor(h, h[a])
    ELSE IF fGt(t, Num(1)) THEN constructor(h, h[b])
    ELSE DoLerp(h, a, b, t)

\* if (t < 0) return a; if (t > 1) return b: the argument itself, no copy.
Lerp(h, a, b, t) ==
    IF fLt(t, Num(0)) THEN Result(h, Ref(a))
    ELSE IF fGt(t, Num(1)) THEN Result(h, Ref(b))
    ELSE DoLerp(h, a, b, t)

LerpUnclamped(h, a, b, t) == DoLerp(h, a, b, t)

MoveTowards(h, current, target, maxDistanceDelta) ==
    LET distance == Distance(h, target, current)
    IN  Lerp(distance.h, current, target, fDiv(maxDistanceDelta, distance.ret.v))

----------------------------------------------------------------------------
(* Instance mutators: this.c op= rhs (a number) or this.c op= rhs.c, one    *)
(* assignment per component; the i-th reads and writes the i-th components  *)
(* only, so the assignments are independent even when rhs is the receiver.  *)

\* Mutant of AddMethod: Vector3's body, which leaves w alone.
AddMethodSkipsW(h, this, rhs) ==
    Result([h EXCEPT ![this] = [i \in Idx |-> IF i = 4 THEN h[this][i]
                                             ELSE fAdd(h[this][i], Comp(h, rhs, i))]], Void)

AddMethod(h, this, rhs) ==
    Result([h EXCEPT ![this] = [i \in Idx |-> fAdd(h[this][i], Comp(h, rhs, i))]], Void)

\* Mutant of SubtractMethod: the receiver is rebuilt the way the constructor
\* stores its arguments, a falsy difference giving way to the default.
SubtractMethodRebuilds(h, this, rhs) ==
    Result([h EXCEPT ![this] =
                [i \in Idx |-> LET d == fSub(h[this][i], Comp(h, rhs, i))
                               IN  IF Truthy(d) THEN d ELSE Default(i)]], Void)

SubtractMethod(h, this, rhs) ==
    Result([h EXCEPT ![this] = [i \in Idx |-> fSub(h[this][i], Comp(h, rhs, i))]], Void)

MultiplyMethod(h, this, rhs) ==
    Result([h EXCEPT ![this] = [i \in Idx |-> fMul(h[this][i], Comp(h, rhs, i))]], Void)

DivideMethod(h, this, rhs) ==
    Result([h EXCEPT ![this] = [i \in Idx |-> fDiv(h[this][i], Comp(h, rhs, i))]], Void)

\* vector.c = value, on the public field c.
WriteField(h, this, i, value) == Result([h EXCEPT ![this][i] = value], Void)

----------------------------------------------------------------------------
(* Calls *)

(***************************************************************************)
(* hist records the calls made so far: the operation, the values passed,    *)
(* the value returned and the heap before the call.  A vector the call      *)
(* returns becomes known to the caller.                                     *)
(***************************************************************************)
Call(name, args, r) ==
    /\ heap' = r.h
    /\ known' = IF r.ret.k = "vec" THEN known \cup {r.ret.id} ELSE known
    /\ hist' = Append(hist, [op |-> name, args |-> args, ret |-> r.ret, pre |-> heap])
    /\ UNCHANGED vt

New(args) == Call("new", [i \in Idx |-> Number(args[i])], constructor(heap, args))

Get(name) == Call(name, <<>>, Accessor(heap, name))

GetNormalized(v) == Call("normalized", <<Ref(v)>>, normalized(heap, v))

GetMagnitude(v) == Call("magnitude", <<Ref(v)>>, Result(heap, Number(magnitude(heap, v))))

GetSqrMagnitude(v) ==
    Call("sqrMagnitude", <<Ref(v)>>, Result(heap, Number(sqrMagnitude(heap, v))))

CallAngle(from, to) == Call("Angle", <<Ref(from), Ref(to)>>, Result(heap, Angle(heap, from, to)))

CallClampMagnitude(v, maxLength) ==
    Call("ClampMagnitude", <<Ref(v), Number(maxLength)>>, ClampMagnitude(heap, v, maxLength))

CallCross(lhs, rhs) == vt # 4 /\ Call("Cross", <<Ref(lhs), Ref(rhs)>>, Cross(heap, lhs, rhs))

CallDistance(a, b) == Call("Distance", <<Ref(a), Ref(b)>>, Distance(heap, a, b))

CallDot(lhs, rhs) ==
    Call("Dot", <<Ref(lhs), Ref(rhs)>>, Result(heap, Number(Dot(heap, lhs, rhs))))

CallLerp(a, b, t) == Call("Lerp", <<Ref(a), Ref(b), Number(t)>>, Lerp(heap, a, b, t))

CallLerpUnclamped(a, b, t) ==
    Call("LerpUnclamped", <<Ref(a), Ref(b), Number(t)>>, LerpUnclamped(heap, a, b, t))

CallMagnitude(v) == Call("Magnitude", <<Ref(v)>>, Result(heap, Number(Magnitude(heap, v))))

CallMax(lhs, rhs) == Call("Max", <<Ref(lhs), Ref(rhs)>>, Max(heap, lhs, rhs))

CallMin(lhs, rhs) == Call("Min", <<Ref(lhs), Ref(rhs)>>, Min(heap, lhs, rhs))

CallMoveTowards(current, target, maxDistanceDelta) ==
    Call("MoveTowards", <<Ref(current), Ref(target), Number(maxDistanceDelta)>>,
         MoveTowards(heap, current, target, maxDistanceDelta))

CallAdd(a, b) == Call("Add", <<Ref(a), b>>, Add(heap, a, b))

CallSubtract(a, b) == Call("Subtract", <<Ref(a), b>>, Subtract(heap, a, b))

CallMultiply(a, b) == Call("Multiply", <<Ref(a), b>>, Multiply(heap, a, b))

CallDivide(a, b) == Call("Divide", <<Ref(a), b>>, Divide(heap, a, b))

CallAddMethod(this, rhs) == Call("v.Add", <<Ref(this), rhs>>, AddMethod(heap, this, rhs))

CallSubtractMethod(this, rhs) ==
    Call("v.Subtract", <<Ref(this), rhs>>, SubtractMethod(heap, this, rhs))

CallMultiplyMethod(this, rhs) ==
    Call("v.Multiply", <<Ref(this), rhs>>, MultiplyMethod(heap, this, rhs))

CallDivideMethod(this, rhs) ==
    Call("v.Divide", <<Ref(this), rhs>>, DivideMethod(heap, this, rhs))

Write(this, i, value) ==
    Call("write", <<Ref(this), Number(Num(i)), Number(value)>>, WriteField(heap, this, i, value))

----------------------------------------------------------------------------
(* Inputs *)

\* Integer components and arguments range over -MaxComp..MaxComp.
MaxComp == 1

Comps == {Num(i) : i \in (-MaxComp)..MaxComp}

OtherComps == {Num(-1), Num(2)}

Scalars == {Num(0), Num(-1), Num(2), Infinity}

\* Interpolation parameters: below, at the ends of, inside and above [0, 1].
Params == {Num(-1), Num(0), Norm(1, 2), Num(1), Num(2)}

\* Constructor arguments: omitted, an integer, or an IEEE special.
CtorArgs == {Undefined, NaN, Infinity, NegInfinity} \cup Comps \cup {Num(2)}

\* An operand `Vector | number`: a known vector or a scalar.
Operands == {Ref(v) : v \in known} \cup {Number(s) : s \in Scalars}

----------------------------------------------------------------------------
(* Spec: one call on two operand vectors *)

\* The second operand: its components are those of OtherComps, z and w
\* repeating x and y.
OtherVectors == {b \in [1..vt -> OtherComps] : \A i \in 3..vt : b[i] = b[i - 2]}

\* Two vectors of one type, as the constructor and writes to their public
\* fields leave them; no call made yet.
Init ==
    /\ vt \in {2, 3, 4}
    /\ \E a \in [1..vt -> Comps], b \in OtherVectors : heap = <<a, b>>
    /\ known = {1, 2}
    /\ hist = <<>>

\* No call made yet.
Ready == hist = <<>>

Next ==
    \/ \E name \in AccessorNames : Ready /\ Get(name)
    \/ \E v \in known : Ready /\ GetNormalized(v)
    \/ \E v \in known : Ready /\ GetMagnitude(v)
    \/ \E v \in known : Ready /\ GetSqrMagnitude(v)
    \/ \E a, b \in known : Ready /\ CallAngle(a, b)
    \/ \E v \in known, m \in Scalars : Ready /\ CallClampMagnitude(v, m)
    \/ \E a, b \in known : Ready /\ CallCross(a, b)
    \/ \E a, b \in known : Ready /\ CallDistance(a, b)
    \/ \E a, b \in known : Ready /\ CallDot(a, b)
    \/ \E a, b \in known, t \in Params : Ready /\ CallLerp(a, b, t)
    \/ \E a, b \in known, t \in Params : Ready /\ CallLerpUnclamped(a, b, t)
    \/ \E v \in known : Ready /\ CallMagnitude(v)
    \/ \E a, b \in known : Ready /\ CallMax(a, b)
    \/ \E a, b \in known : Ready /\ CallMin(a, b)
    \/ \E a, b \in known, d \in Scalars : Ready /\ CallMoveTowards(a, b, d)
    \/ \E a \in known, b \in Operands : Ready /\ CallAdd(a, b)
    \/ \E a \in known, b \in Operands : Ready /\ CallSubtract(a, b)
    \/ \E a \in known, b \in Operands : Ready /\ CallMultiply(a, b)
    \/ \E a \in known, b \in Operands : Ready /\ CallDivide(a, b)
    \/ \E v \in known, rhs \in Operands : Ready /\ CallAddMethod(v, rhs)
    \/ \E v \in known, rhs \in Operands : Ready /\ CallSubtractMethod(v, rhs)
    \/ \E v \in known, rhs \in Operands : Ready /\ CallMultiplyMethod(v, rhs)
    \/ \E v \in known, rhs \in Operands : Ready /\ CallDivideMethod(v, rhs)
    \/ \E v \in known, i \in Idx, x \in Scalars : Ready /\ Write(v, i, x)

Spec == Init /\ [][Next]_vars

----------------------------------------------------------------------------
(* SpecNew: one constructor call *)

InitEmpty ==
    /\ vt \in {2, 3, 4}
    /\ heap = <<>>
    /\ known = {}
    /\ hist = <<>>

NextNew == \E args \in [1..vt -> CtorArgs] : Ready /\ New(args)

SpecNew == InitEmpty /\ [][NextNew]_vars

----------------------------------------------------------------------------
(* SpecRoundTrip: Subtract(Add(a, b), b') on two operand vectors *)

NextRoundTrip ==
    \/ \E a \in known, b \in Operands : Ready /\ CallAdd(a, b)
    \/ \E b \in Operands : Len(hist) = 1 /\ CallSubtract(hist[1].ret.id, b)

SpecRoundTrip == Init /\ [][NextRoundTrip]_vars

----------------------------------------------------------------------------
(* SpecAccessor: reads of the named accessors, and mutators and field      *)
(* writes applied to the vectors read                                       *)

MaxAccessorCalls == 3

MutatorOperands == {Ref(v) : v \in known} \cup {Number(Num(2))}

MoreAccessorCalls == Len(hist) < MaxAccessorCalls

NextAccessor ==
    \/ \E name \in AccessorNames : MoreAccessorCalls /\ Get(name)
    \/ \E v \in known, rhs \in MutatorOperands : MoreAccessorCalls /\ CallAddMethod(v, rhs)
    \/ \E v \in known, rhs \in MutatorOperands : MoreAccessorCalls /\ CallSubtractMethod(v, rhs)
    \/ \E v \in known, rhs \in MutatorOperands : MoreAccessorCalls /\ CallMultiplyMethod(v, rhs)
    \/ \E v \in known, rhs \in MutatorOperands : MoreAccessorCalls /\ CallDivideMethod(v, rhs)
    \/ \E v \in known, i \in Idx : MoreAccessorCalls /\ Write(v, i, Num(2))

SpecAccessor == InitEmpty /\ [][NextAccessor]_vars

----------------------------------------------------------------------------
(* SpecAlias: one static call returning a vector, on two vectors read from  *)
(* named accessors, then mutators applied to the vector it returned         *)

MaxAliasCalls == 2

AliasParams == {Num(-1), Norm(1, 2), Num(2)}

AliasOperands == {Ref(v) : v \in known} \cup {Number(Num(2))}

\* The right-hand sides of the mutators: the first vector the static call
\* was made on, or a number.
AliasRhs == {Ref(1), Number(Num(2))}

\* The vectors returned by the calls made so far.
Returned == {hist[i].ret.id : i \in {j \in 1..Len(hist) : hist[j].ret.k = "vec"}}

InitAccessors ==
    /\ vt \in {2, 3, 4}
    /\ \E n1, n2 \in AccessorNames : heap = Accessor(Accessor(<<>>, n1).h, n2).h
    /\ known = {1, 2}
    /\ hist = <<>>

MoreAliasCalls == hist # <<>> /\ Len(hist) < MaxAliasCalls

NextAlias ==
    \/ \E v \in known, m \in AliasParams : Ready /\ CallClampMagnitude(v, m)
    \/ \E a, b \in known : Ready /\ CallCross(a, b)
    \/ \E a, b \in known, t \in AliasParams : Ready /\ CallLerp(a, b, t)
    \/ \E a, b \in known, t \in AliasParams : Ready /\ CallLerpUnclamped(a, b, t)
    \/ \E a, b \in known : Ready /\ CallMax(a, b)
    \/ \E a, b \in known : Ready /\ CallMin(a, b)
    \/ \E a, b \in known, d \in AliasParams : Ready /\ CallMoveTowards(a, b, d)
    \/ \E a \in known, b \in AliasOperands : Ready /\ CallAdd(a, b)
    \/ \E a \in known, b \in AliasOperands : Ready /\ CallSubtract(a, b)
    \/ \E a \in known, b \in AliasOperands : Ready /\ CallMultiply(a, b)
    \/ \E a \in known, b \in AliasOperands : Ready /\ CallDivide(a, b)
    \/ \E v \in Returned, rhs \in AliasRhs : MoreAliasCalls /\ CallAddMethod(v, rhs)
    \/ \E v \in Returned, rhs \in AliasRhs : MoreAliasCalls /\ CallSubtractMethod(v, rhs)
    \/ \E v \in Returned, rhs \in AliasRhs : MoreAliasCalls /\ CallMultiplyMethod(v, rhs)
    \/ \E v \in Returned, rhs \in AliasRhs : MoreAliasCalls /\ CallDivideMethod(v, rhs)
    \/ \E v \in Returned, i \in Idx : MoreAliasCalls /\ Write(v, i, Num(2))

SpecAlias == InitAccessors /\ [][NextAlias]_vars

----------------------------------------------------------------------------
(* SpecProducts: Dot or Cross of two vectors, then the same product with    *)
(* the operands exchanged, or Dot of the cross product with an operand      *)

BasisComps == {Num(0), Num(1), Num(2)}

InitProducts ==
    /\ vt \in {2, 3, 4}
    /\ \E a \in [1..vt -> Comps], b \in [1..vt -> BasisComps] : heap = <<a, b>>
    /\ known = {1, 2}
    /\ hist = <<>>

\* One call made, of the static operation op.
After(op) == Len(hist) = 1 /\ hist[1].op = op

NextProducts ==
    \/ \E a, b \in known : Ready /\ CallDot(a, b)
    \/ \E a, b \in known : Ready /\ CallCross(a, b)
    \/ After("Dot") /\ CallDot(hist[1].args[2].id, hist[1].args[1].id)
    \/ After("Cross") /\ CallCross(hist[1].args[2].id, hist[1].args[1].id)
    \/ \E v \in {1, 2} : After("Cross") /\ CallDot(hist[1].ret.id, v)

SpecProducts == InitProducts /\ [][NextProducts]_vars

----------------------------------------------------------------------------
(* SpecDerived: reads of magnitude and sqrMagnitude of one vector           *)

MaxDerivedCalls == 2

\* Components with rational and with irrational lengths, up to the 16 of
\* a vector of magnitude 16.
DerivedComps == {Num(0), Num(1), Num(2), Num(16)}

InitDerived ==
    /\ vt \in {2, 3, 4}
    /\ \E v \in [1..vt -> DerivedComps] : heap = <<v>>
    /\ known = {1}
    /\ hist = <<>>

MoreDerivedCalls == Len(hist) < MaxDerivedCalls

NextDerived ==
    \/ \E v \in known : MoreDerivedCalls /\ GetMagnitude(v)
    \/ \E v \in known : MoreDerivedCalls /\ GetSqrMagnitude(v)
    \/ \E v \in known : MoreDerivedCalls /\ CallMagnitude(v)

SpecDerived == InitDerived /\ [][NextDerived]_vars

----------------------------------------------------------------------------
(* Properties *)

Calls == 1..Len(hist)

\* The heap right after call i.
Post(i) == IF i = Len(hist) THEN heap ELSE hist[i + 1].pre

\* The components, right after call i, of the vector it returned.
RetComps(i) == Post(i)[hist[i].ret.id]

\* The defaults as documented: x, y and z are 0 and w is 1.
DocumentedDefault(c) == IF c = 4 THEN Num(1) ELSE Num(0)

\* The vectors the named accessors are documented to return.
Documented(name) ==
    CASE name = "right" -> <<1, 0, 0>>
      [] name = "left" -> <<-1, 0, 0>>
      [] name = "up" -> <<0, 1, 0>>
      [] name = "down" -> <<0, -1, 0>>
      [] name = "forward" -> <<0, 0, 1>>
      [] name = "back" -> <<0, 0, -1>>
      [] name = "one" -> <<1, 1, 1, 1>>
      [] name = "zero" -> <<0, 0, 0, 0>>

AllAccessors ==
    {"right", "left", "up", "down", "forward", "back", "one", "zero",
     "negativeInfinity", "positiveInfinity"}

Mutators == {"v.Add", "v.Subtract", "v.Multiply", "v.Divide"}

Arithmetic == {"Add", "Subtract", "Multiply", "Divide"}

\* x op y for the arithmetic operation (static or instance) named op.
Apply(op, x, y) ==
    CASE op \in {"Add", "v.Add"} -> fAdd(x, y)
      [] op \in {"Subtract", "v.Subtract"} -> fSub(x, y)
      [] op \in {"Multiply", "v.Multiply"} -> fMul(x, y)
      [] op \in {"Divide", "v.Divide"} -> fDiv(x, y)

\* What the operand rhs of a call contributes at component c, on heap h.
OperandAt(h, rhs, c) == IF rhs.k = "num" THEN rhs.v ELSE h[rhs.id][c]

(* C1 (as stated): every component of a constructed vector is the argument
   when the argument is supplied and non-zero, and the default (0; 1 for
   Vector4's w) when it is omitted or 0.  Fails for a NaN argument. *)
C1_AsStated ==
    \A i \in Calls :
        hist[i].op = "new" =>
            \A c \in Idx :
                LET arg == hist[i].args[c].v
                IN  RetComps(i)[c] =
                        IF arg # Undefined /\ arg # Num(0) THEN arg
                        ELSE DocumentedDefault(c)

(* C1 (amended): every component of a constructed vector is the argument
   when the argument is supplied, non-zero and not NaN, and the default
   (0; 1 for Vector4's w) when it is omitted, 0 or NaN; so new Vector4().w
   is 1 and new Vector4(x, y, z, 0).w is 1. *)
C1_Constructor ==
    \A i \in Calls :
        hist[i].op = "new" =>
            \A c \in Idx :
                LET arg == hist[i].args[c].v
                IN  RetComps(i)[c] =
                        IF arg # Undefined /\ arg # Num(0) /\ arg # NaN THEN arg
                        ELSE DocumentedDefault(c)

\* new Vector4(-1, undefined, NaN, 0) is (-1, 0, 0, 1).
C1_Witness ==
    /\ vt = 4
    /\ hist # <<>>
    /\ hist[1].op = "new"
    /\ hist[1].args = <<Number(Num(-1)), Number(Undefined), Number(NaN), Number(Num(0))>>
    /\ heap[1] = <<Num(-1), Num(0), Num(0), Num(1)>>

(* C2: every named accessor returns a vector with exactly the components
   its documentation lists; Vector4.zero is (0, 0, 0, 0) and the infinities
   have every component -Infinity or +Infinity. *)
C2_AccessorValues ==
    \A i \in Calls :
        hist[i].op \in AllAccessors =>
            \A c \in Idx :
                RetComps(i)[c] =
                    CASE hist[i].op = "negativeInfinity" -> NegInfinity
                      [] hist[i].op = "positiveInfinity" -> Infinity
                      [] OTHER -> Num(Documented(hist[i].op)[c])

\* The reads of named accessors among the calls.
Reads == {i \in Calls : hist[i].op \in AllAccessors}

(* C3: each read of a named accessor yields a fresh instance: no two reads
   return the same instance, the instance returned did not exist before
   the read, and a later read of the same accessor returns the component
   values the first read returned, whatever mutators and field writes
   were applied in between to the vectors read earlier. *)
C3_AccessorFresh ==
    \A i \in Reads, j \in Reads :
        i < j =>
            /\ hist[j].ret.id # hist[i].ret.id
            /\ hist[j].ret.id \notin DOMAIN hist[j].pre
            /\ hist[j].op = hist[i].op => RetComps(j) = RetComps(i)

\* An accessor is read again after the vector its first read returned was
\* changed by a mutator or a field write.
C3_Witness ==
    \E i \in Reads, j \in Reads :
        /\ i < j
        /\ hist[j].op = hist[i].op
        /\ hist[j].pre[hist[i].ret.id] # RetComps(i)

\* The static operations that return a vector.
VectorOps ==
    {"Add", "Subtract", "Multiply", "Divide", "Cross", "Max", "Min",
     "ClampMagnitude", "Lerp", "LerpUnclamped", "MoveTowards"}

\* The static operations and the derived properties.
PureOps ==
    VectorOps \cup {"Angle", "Distance", "Dot", "Magnitude",
                    "normalized", "magnitude", "sqrMagnitude"}

\* The vectors passed to call i.
VectorArgs(i) ==
    {hist[i].args[n].id : n \in {m \in DOMAIN hist[i].args : hist[i].args[m].k = "vec"}}

\* The interpolation parameter call i (Lerp or MoveTowards) works with:
\* t itself, or maxDistanceDelta / Distance(target, current).
ParamOf(i) ==
    IF hist[i].op = "Lerp" THEN hist[i].args[3].v
    ELSE fDiv(hist[i].args[3].v,
              Distance(hist[i].pre, hist[i].args[2].id, hist[i].args[1].id).ret.v)

\* Call i is a Lerp or a MoveTowards whose parameter is below 0 or above 1.
OutOfRange(i) ==
    /\ hist[i].op \in {"Lerp", "MoveTowards"}
    /\ fLt(ParamOf(i), Num(0)) \/ fGt(ParamOf(i), Num(1))

\* Call j is a mutator or a field write applied to vector v.
MutatesVector(j, v) ==
    /\ hist[j].op \in Mutators \cup {"write"}
    /\ hist[j].args[1].id = v

(* C4 (as stated): every static operation that returns a vector returns an
   instance distinct from each of its argument vectors.  Fails for Lerp
   with t < 0 or t > 1. *)
C4_AsStated ==
    \A i \in Calls :
        hist[i].op \in VectorOps => hist[i].ret.id \notin VectorArgs(i)

(* C4 (amended): every static operation that returns a vector returns a
   new instance, distinct from each of its argument vectors, so that a
   mutator or field write later applied to the result changes no component
   of any argument; except Lerp with t < 0 or t > 1 and MoveTowards with
   maxDistanceDelta / Distance(target, current) < 0 or > 1, which return
   an argument. *)
C4_NewInstance ==
    \A i \in Calls :
        (hist[i].op \in VectorOps /\ ~OutOfRange(i)) =>
            /\ hist[i].ret.k = "vec"
            /\ hist[i].ret.id \notin DOMAIN hist[i].pre
            /\ \A j \in Calls :
                   (i < j /\ MutatesVector(j, hist[i].ret.id)) =>
                       \A a \in VectorArgs(i) : Post(j)[a] = hist[j].pre[a]

\* MoveTowards returned a new vector between its arguments, and a mutator
\* then changed that vector.
C4_Witness ==
    /\ Len(hist) = 2
    /\ hist[1].op = "MoveTowards"
    /\ ~OutOfRange(1)
    /\ hist[1].args[1].id # hist[1].args[2].id
    /\ hist[2].op \in Mutators
    /\ heap[hist[1].ret.id] # hist[2].pre[hist[1].ret.id]

(* C5: no static operation and no read of a derived property (normalized,
   magnitude, sqrMagnitude) changes a component of any vector that existed
   before the call: the arguments and the receiver are as they were. *)
C5_NoArgumentChanged ==
    \A i \in Calls :
        hist[i].op \in PureOps =>
            \A o \in DOMAIN hist[i].pre : Post(i)[o] = hist[i].pre[o]

\* Lerp interpolated between two different vectors at t = 1/2, creating
\* its three instances.
C5_Witness ==
    /\ hist # <<>>
    /\ hist[1].op = "Lerp"
    /\ hist[1].args[3].v = Norm(1, 2)
    /\ hist[1].args[1].id # hist[1].args[2].id
    /\ Len(heap) = Len(hist[1].pre) + 3
    /\ RetComps(1) # heap[hist[1].args[1].id]

(* C6: an instance mutator v.Add / v.Subtract / v.Multiply / v.Divide(rhs)
   replaces every component c of the receiver by c op rhs.c (rhs a vector)
   or c op rhs (rhs a number), w included, returns nothing, creates no
   instance and leaves every other instance unchanged. *)
C6_InstanceMutators ==
    \A i \in Calls :
        hist[i].op \in Mutators =>
            LET this == hist[i].args[1].id
                rhs == hist[i].args[2]
                pre == hist[i].pre
            IN  /\ hist[i].ret = Void
                /\ DOMAIN Post(i) = DOMAIN pre
                /\ \A c \in Idx :
                       Post(i)[this][c] =
                           Apply(hist[i].op, pre[this][c], OperandAt(pre, rhs, c))
                /\ \A o \in DOMAIN pre : o # this => Post(i)[o] = pre[o]

\* v.Add(rhs) on a Vector4 with rhs another instance: w changed too.
C6_Witness ==
    /\ vt = 4
    /\ hist # <<>>
    /\ hist[1].op = "v.Add"
    /\ hist[1].args[2].k = "vec"
    /\ hist[1].args[2].id # hist[1].args[1].id
    /\ heap[hist[1].args[1].id][4] # hist[1].pre[hist[1].args[1].id][4]

\* No divisor component of the operand of call i is 0.
NonZeroDivisor(i) ==
    \A c \in Idx : OperandAt(hist[i].pre, hist[i].args[2], c) # Num(0)

(* C7: every component of the vector a static Add, Subtract, Multiply or
   Divide (divisor components non-zero) returns, Vector4's w included, is
   a.c op b.c (b a vector) or a.c op b (b a number), also when it is 0. *)
C7_StaticArithmetic ==
    \A i \in Calls :
        (hist[i].op \in Arithmetic /\ (hist[i].op = "Divide" => NonZeroDivisor(i))) =>
            \A c \in Idx :
                RetComps(i)[c] =
                    Apply(hist[i].op, hist[i].pre[hist[i].args[1].id][c],
                          OperandAt(hist[i].pre, hist[i].args[2], c))

\* The round trips: Add(a, b) and then Subtract of the same vector b from
\* the sum.
RoundTrip ==
    /\ Len(hist) = 2
    /\ hist[1].args[2].k = "vec"
    /\ hist[2].args[2] = hist[1].args[2]

(* C8: for Vector3 a and b with integer components, the components of
   Vector3.Subtract(Vector3.Add(a, b), b) are those of a. *)
C8_AddSubtractRoundTrip ==
    (vt = 3 /\ RoundTrip) => heap[hist[2].ret.id] = heap[hist[1].args[1].id]

\* A round trip whose sum has a zero x where a's x is not zero.
C8_Witness ==
    /\ vt = 3
    /\ RoundTrip
    /\ heap[hist[1].ret.id][1] = Num(0)
    /\ heap[hist[1].args[1].id][1] # Num(0)
    /\ heap[hist[1].args[1].id] # heap[hist[1].args[2].id]

(* C9: Lerp(a, b, 0) has exactly the components of a and Lerp(a, b, 1)
   exactly those of b, in every component, Vector4's w included. *)
C9_LerpEndpoints ==
    \A i \in Calls :
        hist[i].op = "Lerp" =>
            /\ hist[i].args[3].v = Num(0) => RetComps(i) = hist[i].pre[hist[i].args[1].id]
            /\ hist[i].args[3].v = Num(1) => RetComps(i) = hist[i].pre[hist[i].args[2].id]

(* C10: Lerp(a, b, t) with t < 0 returns the instance a and with t > 1 the
   instance b, creating nothing; so a mutator applied afterwards to the
   returned vector changes that argument: each of its components c becomes
   c op rhs.c or c op rhs. *)
C10_LerpReturnsArgument ==
    \A i \in Calls :
        (hist[i].op = "Lerp" /\ OutOfRange(i)) =>
            LET arg == IF fLt(hist[i].args[3].v, Num(0)) THEN hist[i].args[1]
                       ELSE hist[i].args[2]
            IN  /\ hist[i].ret = arg
                /\ Post(i) = hist[i].pre
                /\ \A j \in Calls :
                       (i < j /\ hist[j].op \in Mutators
                              /\ hist[j].args[1] = hist[i].ret) =>
                           \A c \in Idx :
                               Post(j)[arg.id][c] =
                                   Apply(hist[j].op, hist[j].pre[arg.id][c],
                                         OperandAt(hist[j].pre, hist[j].args[2], c))

\* Lerp(a, b, 2) with a and b two instances, then a mutator on the vector
\* returned: b is changed.
C10_Witness ==
    /\ Len(hist) = 2
    /\ hist[1].op = "Lerp"
    /\ hist[1].args[3].v = Num(2)
    /\ hist[1].args[1].id # hist[1].args[2].id
    /\ hist[2].op \in Mutators
    /\ hist[2].args[1] = hist[1].ret
    /\ heap[hist[1].args[2].id] # hist[2].pre[hist[1].args[2].id]

\* The arguments of call i: the components of its n-th argument (a vector)
\* before the call, and its n-th argument as a number.
ArgComps(i, n) == hist[i].pre[hist[i].args[n].id]

ArgNum(i, n) == hist[i].args[n].v

(* C11: LerpUnclamped(a, b, t) returns, for every t and each of the three
   vector types, a vector whose every component c is a.c + (b.c - a.c) * t,
   and so does Lerp(a, b, t) whenever 0 <= t <= 1. *)
C11_LerpUnclamped ==
    \A i \in Calls :
        (\/ hist[i].op = "LerpUnclamped"
         \/ hist[i].op = "Lerp" /\ fGe(ArgNum(i, 3), Num(0)) /\ fLe(ArgNum(i, 3), Num(1))) =>
            \A c \in Idx :
                RetComps(i)[c] =
                    fAdd(ArgComps(i, 1)[c],
                         fMul(fSub(ArgComps(i, 2)[c], ArgComps(i, 1)[c]), ArgNum(i, 3)))

\* f[1] + ... + f[n], summed from the left.
RECURSIVE SumTo(_, _)
SumTo(f, n) == IF n = 1 THEN f[1] ELSE fAdd(SumTo(f, n - 1), f[n])

\* Calls i and j are the same operation on the same two vectors, with the
\* operands exchanged.
Exchanged(i, j) ==
    /\ hist[j].op = hist[i].op
    /\ hist[j].args = <<hist[i].args[2], hist[i].args[1]>>

(* C12: Dot(lhs, rhs) is the sum of the products of the components of lhs
   and rhs (x, y, and z and w where present), and Dot(a, b) = Dot(b, a). *)
C12_Dot ==
    \A i \in Calls :
        hist[i].op = "Dot" =>
            /\ hist[i].ret =
                   Number(SumTo([c \in Idx |-> fMul(ArgComps(i, 1)[c], ArgComps(i, 2)[c])], vt))
            /\ \A j \in Calls : Exchanged(i, j) => hist[j].ret = hist[i].ret

\* Dot(a, b) and Dot(b, a) of two different Vector4, every product counting:
\* the dot product is not 0 and no component of a or b is 0.
C12_Witness ==
    /\ vt = 4
    /\ Len(hist) = 2
    /\ hist[1].op = "Dot"
    /\ Exchanged(1, 2)
    /\ ArgComps(1, 1) # ArgComps(1, 2)
    /\ hist[2].ret.v # Num(0)
    /\ \A c \in Idx : ArgComps(1, 1)[c] # Num(0) /\ ArgComps(1, 2)[c] # Num(0)

(* C13: Cross is anticommutative: for Vector3 a and b every component of
   Cross(a, b) is the negation of that component of Cross(b, a); for
   Vector2, Cross(a, b).x = -Cross(b, a).x. *)
C13_CrossAnticommutative ==
    \A i \in Calls, j \in Calls :
        (hist[i].op = "Cross" /\ Exchanged(i, j)) =>
            IF vt = 3 THEN \A c \in Idx : RetComps(i)[c] = fNeg(RetComps(j)[c])
            ELSE RetComps(i)[1] = fNeg(RetComps(j)[1])

\* Cross(a, b) and Cross(b, a) of two Vector3 whose cross product has no
\* zero component.
C13_Witness ==
    /\ vt = 3
    /\ Len(hist) = 2
    /\ hist[1].op = "Cross"
    /\ Exchanged(1, 2)
    /\ \A c \in Idx : RetComps(1)[c] # Num(0)

(* C14: Vector3.Cross(a, b) is the right-handed cross product: it is
   perpendicular to both operands, Dot(Cross(a, b), a) = 0 and
   Dot(Cross(a, b), b) = 0, and Cross((1,0,0), (0,1,0)) = (0,0,1). *)
C14_CrossRightHanded ==
    \A i \in Calls :
        (vt = 3 /\ hist[i].op = "Cross") =>
            /\ \A j \in Calls :
                   (/\ i < j
                    /\ hist[j].op = "Dot"
                    /\ hist[j].args[1] = hist[i].ret
                    /\ hist[j].args[2] \in {hist[i].args[1], hist[i].args[2]}) =>
                       hist[j].ret = Number(Num(0))
            /\ (/\ ArgComps(i, 1) = <<Num(1), Num(0), Num(0)>>
                /\ ArgComps(i, 2) = <<Num(0), Num(1), Num(0)>>) =>
                   RetComps(i) = <<Num(0), Num(0), Num(1)>>

\* Cross((1,0,0), (0,1,0)) and then Dot of the product with (0,1,0).
C14_Witness ==
    /\ vt = 3
    /\ Len(hist) = 2
    /\ hist[1].op = "Cross"
    /\ ArgComps(1, 1) = <<Num(1), Num(0), Num(0)>>
    /\ ArgComps(1, 2) = <<Num(0), Num(1), Num(0)>>
    /\ hist[2].op = "Dot"
    /\ hist[2].args = <<hist[1].ret, hist[1].args[2]>>

\* The larger and the smaller of two numbers.
Larger(x, y) == IF fLt(x, y) THEN y ELSE x

Smaller(x, y) == IF fLt(y, x) THEN y ELSE x

(* C15: every component of Max(lhs, rhs) is the larger and every component
   of Min(lhs, rhs) the smaller of the operands' components, for the three
   vector types and every component, Vector4's w included; so Max(a, a)
   and Min(a, a) have the components of a. *)
C15_MaxMin ==
    \A i \in Calls :
        /\ hist[i].op = "Max" =>
               \A c \in Idx : RetComps(i)[c] = Larger(ArgComps(i, 1)[c], ArgComps(i, 2)[c])
        /\ hist[i].op = "Min" =>
               \A c \in Idx : RetComps(i)[c] = Smaller(ArgComps(i, 1)[c], ArgComps(i, 2)[c])

\* The sum of the squares of the components of the vector call i is made on.
SumOfSquares(i) == SumTo([c \in Idx |-> fMul(ArgComps(i, 1)[c], ArgComps(i, 1)[c])], vt)

(* C16: for a vector of any of the three types whose components are all 0
   (magnitude 0; a Vector4 gets there by a write of w = 0 or by a mutator),
   normalized raises no error and returns the zero vector: every component
   of the vector returned is 0, and so is its magnitude. *)
C16_NormalizedOfZero ==
    \A i \in Calls :
        (hist[i].op = "normalized" /\ \A c \in Idx : ArgComps(i, 1)[c] = Num(0)) =>
            /\ hist[i].ret.k = "vec"
            /\ \A c \in Idx : RetComps(i)[c] = Num(0)
            /\ magnitude(Post(i), hist[i].ret.id) = Num(0)

(* C17: magnitude is the square root of the sum of the squared components,
   and for every vector v with magnitude m > 0, v.normalized has the
   components v.c / m and therefore magnitude 1 (to the precision of the
   square root when m is irrational). *)
C17_MagnitudeNormalized ==
    \A i \in Calls :
        LET m == fSqrt(SumOfSquares(i))
        IN  /\ hist[i].op = "magnitude" => hist[i].ret = Number(m)
            /\ (hist[i].op = "normalized" /\ fGt(m, Num(0))) =>
                   /\ \A c \in Idx : RetComps(i)[c] = fDiv(ArgComps(i, 1)[c], m)
                   /\ LET n == magnitude(Post(i), hist[i].ret.id)
                      IN  /\ fGe(n, fSub(Num(1), Norm(2, SqrtScale)))
                          /\ fLe(n, fAdd(Num(1), Norm(2, SqrtScale)))

(* C18: sqrMagnitude returns the squared length of the vector, the sum of
   the squares of its components, so that sqrMagnitude is magnitude *
   magnitude. *)
C18_SqrMagnitudeIsSquare ==
    \A i \in Calls :
        hist[i].op = "sqrMagnitude" => hist[i].ret = Number(SumOfSquares(i))

(* C19: sqrMagnitude is the square root of magnitude, the fourth root of
   the sum of the squared components, for the three vector types: it is
   k when the sum of squares is k^4 (4 for a vector of magnitude 16), it
   is not negative, and its square is the magnitude read from the same
   vector, to the precision 1 / SqrtScale of the square root. *)
C19_SqrMagnitudeIsRoot ==
    \A j \in Calls :
        hist[j].op = "sqrMagnitude" =>
            LET r == hist[j].ret.v
                above == fAdd(r, Norm(1, SqrtScale))
            IN  /\ fGe(r, Num(0))
                /\ \A k \in 0..5 : SumOfSquares(j) = Num(k * k * k * k) => r = Num(k)
                /\ \A i \in Calls :
                       (hist[i].op \in {"magnitude", "Magnitude"} /\ hist[i].args = hist[j].args) =>
                           /\ fLe(fMul(r, r), hist[i].ret.v)
                           /\ fLt(hist[i].ret.v, fMul(above, above))

\* The magnitude 16 and then the sqrMagnitude 4 of the same vector.
C19_Witness ==
    /\ Len(hist) = 2
    /\ hist[1].op = "magnitude"
    /\ hist[1].ret = Number(Num(16))
    /\ hist[2].op = "sqrMagnitude"
    /\ hist[2].args = hist[1].args
    /\ hist[2].ret = Number(Num(4))

(* C20: Distance(a, b) is the Euclidean norm of the componentwise
   difference a - b over every component of the type (x, y, and z and w
   where present), for the three vector types; so Distance(a, a) = 0. *)
C20_Distance ==
    \A i \in Calls :
        hist[i].op = "Distance" =>
            LET d == [c \in Idx |-> fSub(ArgComps(i, 1)[c], ArgComps(i, 2)[c])]
            IN  hist[i].ret = Number(fSqrt(SumTo([c \in Idx |-> fMul(d[c], d[c])], vt)))

\* |v|: the square root of the sum of the squared components of the vector
\* call i is made on.
Norm2(i) == fSqrt(SumOfSquares(i))

(* C21: ClampMagnitude(v, m): when |v| <= m the result is a new vector with
   exactly the components of v (every component, a Vector4 w equal to 0
   included); when |v| > m >= 0 every component of the result is
   v.c * (m / |v|). *)
C21_ClampMagnitude ==
    \A i \in Calls :
        hist[i].op = "ClampMagnitude" =>
            LET m == ArgNum(i, 2)
            IN  /\ hist[i].ret.id \notin DOMAIN hist[i].pre
                /\ fLe(Norm2(i), m) => RetComps(i) = ArgComps(i, 1)
                /\ (fGt(Norm2(i), m) /\ fGe(m, Num(0))) =>
                       \A c \in Idx : RetComps(i)[c] = fMul(ArgComps(i, 1)[c], fDiv(m, Norm2(i)))

\* The Euclidean distance of the two vectors call i is made on.
Euclidean(i) ==
    LET d == [c \in Idx |-> fSub(ArgComps(i, 2)[c], ArgComps(i, 1)[c])]
    IN  fSqrt(SumTo([c \in Idx |-> fMul(d[c], d[c])], vt))

(* C22: MoveTowards(current, target, d) returns a position on the segment
   from current to target, moved no farther than d: when d is at least
   the Euclidean distance of current and target (a distance > 0) the
   result has exactly the components of target, when d < 0 it is current,
   and otherwise (0 <= d < distance) every component is
   current + (target - current) * (d / distance), for the three types. *)
C22_MoveTowards ==
    \A i \in Calls :
        hist[i].op = "MoveTowards" =>
            LET d == ArgNum(i, 3)
                distance == Euclidean(i)
            IN  /\ (fGt(distance, Num(0)) /\ fGe(d, distance)) => RetComps(i) = ArgComps(i, 2)
                /\ fLt(d, Num(0)) => RetComps(i) = ArgComps(i, 1)
                /\ (fGe(d, Num(0)) /\ fLt(d, distance)) =>
                       \A c \in Idx :
                           RetComps(i)[c] =
                               fAdd(ArgComps(i, 1)[c],
                                    fMul(fSub(ArgComps(i, 2)[c], ArgComps(i, 1)[c]),
                                         fDiv(d, distance)))

\* The 2D cross value of the two vectors call i is made on.
CrossValue(i) ==
    fSub(fMul(ArgComps(i, 1)[1], ArgComps(i, 2)[2]), fMul(ArgComps(i, 2)[1], ArgComps(i, 1)[2]))

(* C23: Vector2.Cross(lhs, rhs) returns a Vector2 whose x is
   lhs.x * rhs.y - rhs.x * lhs.y and whose y is 0, for all lhs and rhs. *)
C23_Vector2Cross ==
    \A i \in Calls :
        (vt = 2 /\ hist[i].op = "Cross") => RetComps(i) = <<CrossValue(i), Num(0)>>

(* C24: MoveTowards(current, target, d) with current and target having
   equal components and d > 0 returns target itself (the distance is 0,
   d / 0 is +Infinity and Lerp's t > 1 branch returns target), for each
   of Vector2, Vector3 and Vector4. *)
C24_MoveTowardsAtTarget ==
    \A i \in Calls :
        (/\ hist[i].op = "MoveTowards"
         /\ ArgComps(i, 1) = ArgComps(i, 2)
         /\ fGt(ArgNum(i, 3), Num(0))) =>
            hist[i].ret = hist[i].args[2]

\* Call i is MoveTowards(current, target, 0) on two vectors with equal
\* components.
ZeroStepAtTarget(i) ==
    /\ hist[i].op = "MoveTowards"
    /\ ArgComps(i, 1) = ArgComps(i, 2)
    /\ ArgNum(i, 3) = Num(0)

(* C25: MoveTowards(current, target, 0) with current and target having
   equal components computes t = 0 / 0 = NaN and the NaN reaches the
   caller: the vector returned has NaN components. *)
C25_ZeroStepNaN ==
    \A i \in Calls :
        ZeroStepAtTarget(i) => \E c \in Idx : IsNaN(RetComps(i)[c])

\* The components at which the divisor of call i is 0.
ZeroDivisorAt(i) ==
    {c \in Idx : OperandAt(hist[i].pre, hist[i].args[2], c) = Num(0)}

\* The vector in which call i delivers its result: the receiver of an
\* instance mutator, the vector returned by a static operator.
Delivered(i) ==
    IF hist[i].op \in Mutators THEN Post(i)[hist[i].args[1].id] ELSE RetComps(i)

(* C26: Divide performs no zero check and the IEEE quotient reaches the
   caller untouched in both call shapes: wherever the divisor is 0, the
   component c / 0 is +Infinity or -Infinity when c is non-zero and NaN
   when c is 0, in the receiver after the instance Divide and in the
   vector returned by the static Divide. *)
C26_DivideByZero ==
    \A i \in Calls :
        hist[i].op \in {"Divide", "v.Divide"} =>
            \A c \in ZeroDivisorAt(i) :
                LET x == ArgComps(i, 1)[c]
                IN  /\ Delivered(i)[c] = fDiv(x, Num(0))
                    /\ Delivered(i)[c] =
                           IF x = Num(0) THEN NaN
                           ELSE IF fGt(x, Num(0)) THEN Infinity ELSE NegInfinity

\* The components of the vector the static counterpart of instance mutator
\* op returns on heap h for the operands a and b.
StaticForm(op, h, a, b) ==
    LET r == CASE op = "v.Add" -> Add(h, a, b)
               [] op = "v.Subtract" -> Subtract(h, a, b)
               [] op = "v.Multiply" -> Multiply(h, a, b)
               [] op = "v.Divide" -> Divide(h, a, b)
    IN  r.h[r.ret.id]

(* C27: the instance and the static form of Add, Subtract, Multiply and
   Divide (divisor components non-zero) agree: after v.Op(rhs), every
   component of v, Vector4's w and the components equal to 0 included,
   equals the component of the vector Op(v, rhs) returns on the values
   v and rhs had before the call. *)
C27_InstanceStaticAgree ==
    \A i \in Calls :
        (hist[i].op \in Mutators /\ (hist[i].op = "v.Divide" => NonZeroDivisor(i))) =>
            Post(i)[hist[i].args[1].id] =
                StaticForm(hist[i].op, hist[i].pre, hist[i].args[1].id, hist[i].args[2])

----------------------------------------------------------------------------
(* SpecNaN: instance mutators and component writes on two vectors read     *)
(* from the accessors, then one operation that builds or returns a vector  *)

MaxTaintCalls == 1

\* The accessors the two vectors are read from.
NaNSeeds == {"zero", "one", "positiveInfinity", "negativeInfinity"}

\* The right-hand sides of the mutators: the second vector or a number.
TaintRhs == {Ref(2), Number(Infinity)}

\* Constructor arguments and scalar parameters of the last operation.
NaNArgs == {NaN, Num(2)}

NaNParams == {NaN, Num(2)}

NaNOperands == {Ref(1), Ref(2), Number(NaN), Number(Num(0))}

InitNaN ==
    /\ vt \in {2, 3, 4}
    /\ \E n1, n2 \in NaNSeeds : heap = Accessor(Accessor(<<>>, n1).h, n2).h
    /\ known = {1, 2}
    /\ hist = <<>>

\* Only mutators and writes were called so far.
OnlyMutated == \A i \in 1..Len(hist) : hist[i].op \in {"v.Add", "v.Subtract", "v.Multiply", "v.Divide", "write"}

MoreTaintCalls == OnlyMutated /\ Len(hist) < MaxTaintCalls

NextNaN ==
    \/ \E rhs \in TaintRhs : MoreTaintCalls /\ CallAddMethod(1, rhs)
    \/ \E rhs \in TaintRhs : MoreTaintCalls /\ CallSubtractMethod(1, rhs)
    \/ \E rhs \in TaintRhs : MoreTaintCalls /\ CallMultiplyMethod(1, rhs)
    \/ \E rhs \in TaintRhs : MoreTaintCalls /\ CallDivideMethod(1, rhs)
    \/ \E i \in Idx : MoreTaintCalls /\ Write(1, i, NaN)
    \/ \E args \in [1..vt -> NaNArgs] : OnlyMutated /\ New(args)
    \/ \E name \in AccessorNames : OnlyMutated /\ Get(name)
    \/ \E v \in {1, 2} : OnlyMutated /\ GetNormalized(v)
    \/ \E v \in {1, 2}, m \in NaNParams : OnlyMutated /\ CallClampMagnitude(v, m)
    \/ \E a, b \in {1, 2} : OnlyMutated /\ CallCross(a, b)
    \/ \E a, b \in {1, 2}, t \in NaNParams : OnlyMutated /\ CallLerp(a, b, t)
    \/ \E a, b \in {1, 2}, t \in NaNParams : OnlyMutated /\ CallLerpUnclamped(a, b, t)
    \/ \E a, b \in {1, 2} : OnlyMutated /\ CallMax(a, b)
    \/ \E a, b \in {1, 2} : OnlyMutated /\ CallMin(a, b)
    \/ \E a, b \in {1, 2}, d \in NaNParams : OnlyMutated /\ CallMoveTowards(a, b, d)
    \/ \E a \in {1, 2}, b \in NaNOperands : OnlyMutated /\ CallAdd(a, b)
    \/ \E a \in {1, 2}, b \in NaNOperands : OnlyMutated /\ CallSubtract(a, b)
    \/ \E a \in {1, 2}, b \in NaNOperands : OnlyMutated /\ CallMultiply(a, b)
    \/ \E a \in {1, 2}, b \in NaNOperands : OnlyMutated /\ CallDivide(a, b)

SpecNaN == InitNaN /\ [][NextNaN]_vars

\* The operations that build the vector they return with the constructor.
Constructing ==
    {"new", "Add", "Subtract", "Multiply", "Divide", "Cross", "Max", "Min",
     "ClampMagnitude", "LerpUnclamped", "normalized"} \cup AllAccessors

\* The components that are NaN after call i and were not NaN before it.
NewNaN(i) ==
    {oc \in (DOMAIN Post(i)) \X Idx :
        /\ IsNaN(Post(i)[oc[1]][oc[2]])
        /\ oc[1] \in DOMAIN hist[i].pre => ~IsNaN(hist[i].pre[oc[1]][oc[2]])}

(* C28: no freshly constructed vector has a NaN component: every vector
   returned by the constructor, a named accessor, Add, Subtract, Multiply,
   Divide, Cross, Max, Min, ClampMagnitude, LerpUnclamped or normalized
   has no NaN component, whatever NaN its operands hold, and a component
   becomes NaN only in an instance mutator or a component write. *)
C28_NoFreshNaN ==
    \A i \in Calls :
        /\ hist[i].op \in Constructing => \A c \in Idx : ~IsNaN(RetComps(i)[c])
        /\ NewNaN(i) # {} => hist[i].op \in Mutators \cup {"write"}

C28_Witness ==
    /\ Len(hist) = 2
    /\ hist[1].op = "v.Subtract"
    /\ NewNaN(1) # {}
    /\ hist[2].op = "Multiply"
    /\ hist[2].args[1] = Ref(1)
    /\ \E c \in Idx : IsNaN(ArgComps(2, 1)[c]) /\ RetComps(2)[c] = Default(c)

----------------------------------------------------------------------------
(* SpecPairs: v.Add(rhs) and, later, v.Subtract(rhs) of the same operand,   *)
(* the pairs interleaved, on the first of two operand vectors               *)

MaxPairCalls == 4

\* The operands of the pairs: the other vector or a number.
PairRhs == {Ref(2), Number(Num(-1)), Number(Infinity)}

\* How many times rhs was added to the vector and not yet subtracted.
Pending(rhs) ==
    Cardinality({i \in 1..Len(hist) : hist[i].op = "v.Add" /\ hist[i].args[2] = rhs})
        - Cardinality({i \in 1..Len(hist) : hist[i].op = "v.Subtract" /\ hist[i].args[2] = rhs})

MorePairCalls == Len(hist) < MaxPairCalls

NextPairs ==
    \/ \E rhs \in PairRhs : MorePairCalls /\ CallAddMethod(1, rhs)
    \/ \E rhs \in PairRhs : MorePairCalls /\ Pending(rhs) > 0 /\ CallSubtractMethod(1, rhs)

SpecPairs == Init /\ [][NextPairs]_vars

\* Every Add made so far has been followed by its Subtract.
Balanced == hist # <<>> /\ \A rhs \in PairRhs : Pending(rhs) = 0

\* Call i + 1 subtracts what call i added.
AdjacentPair(i) ==
    /\ i + 1 \in Calls
    /\ hist[i].op = "v.Add"
    /\ hist[i + 1].op = "v.Subtract"
    /\ hist[i + 1].args[2] = hist[i].args[2]

\* The operands of all calls made so far have integer components.
IntegerOperands ==
    \A i \in Calls : \A c \in Idx : OperandAt(hist[i].pre, hist[i].args[2], c)[2] = 1

(* C29 (as stated): for every v with integer components and every operand
   rhs, a scalar or a vector that is another instance, v.Add(rhs);
   v.Subtract(rhs) leaves every component of v as it was, and so does any
   interleaving of such pairs.  Fails for the scalar Infinity. *)
C29_AsStated ==
    /\ \A i \in Calls :
           (AdjacentPair(i) /\ \A c \in Idx : hist[i].pre[1][c][2] = 1) =>
               Post(i + 1)[1] = hist[i].pre[1]
    /\ Balanced => heap[1] = hist[1].pre[1]

(* C29 (amended): for every v with integer components and every operand
   rhs with integer components, a scalar or a vector that is another
   instance, v.Add(rhs); v.Subtract(rhs) leaves every component of v,
   Vector4's w and the components that pass through 0 included, as it
   was, rhs is left unchanged, and any interleaving of such pairs
   restores v. *)
C29_InstanceRoundTrip ==
    IntegerOperands =>
        /\ \A i \in Calls : AdjacentPair(i) => Post(i + 1)[1] = hist[i].pre[1]
        /\ Balanced => heap = hist[1].pre

C29_Witness ==
    /\ vt = 4
    /\ Len(hist) = 4
    /\ IntegerOperands
    /\ Balanced
    /\ hist[1].args[2] # hist[2].args[2]
    /\ hist[3].args[2] = hist[1].args[2]
    /\ hist[1].pre[1][4] # Num(0)
    /\ \E i \in 2..4 : hist[i].pre[1][4] = Num(0)
    /\ heap[1] = hist[1].pre[1]

----------------------------------------------------------------------------
(* SpecStepping: current = MoveTowards(current, target, d), repeated with  *)
(* one d > 0                                                                *)

MaxSteps == 5

StepSizes == {Norm(1, 2), Num(1), Num(2)}

\* How far target lies from the first current, along one axis.
StepGaps == {Num(1), Num(2)}

\* The axes along which target differs from current: in Vector4 the last.
StepAxes == IF vt = 4 THEN {4} ELSE Idx

InitStepping ==
    /\ vt \in {2, 3, 4}
    /\ \E a \in [1..vt -> Comps], c \in StepAxes, e \in StepGaps :
           heap = <<a, [a EXCEPT ![c] = fAdd(a[c], e)]>>
    /\ known = {1, 2}
    /\ hist = <<>>

\* The instance the caller's variable current refers to, and target.
CurrentId == IF hist = <<>> THEN 1 ELSE hist[Len(hist)].ret.id

Current == heap[CurrentId]

Target == heap[2]

MoreSteps == hist # <<>> /\ Len(hist) < MaxSteps

NextStepping ==
    \/ \E d \in StepSizes : Ready /\ CallMoveTowards(1, 2, d)
    \/ MoreSteps /\ CallMoveTowards(CurrentId, 2, hist[1].args[3].v)

SpecStepping == InitStepping /\ [][NextStepping]_vars

\* The square of the Euclidean distance of two component tuples.
SqrDistance(x, y) ==
    LET d == [i \in DOMAIN x |-> fSub(x[i], y[i])] IN SumProducts(d, d)

AtTarget == Current = Target

\* A step from a current other than target brings it strictly nearer.
StepsNearer ==
    Current # Target => fLt(SqrDistance(Current', Target'), SqrDistance(Current, Target))

\* A step from a current with the components of target leaves them.
StaysAtTarget == AtTarget => AtTarget'

\* After MaxSteps steps some step has returned the components of target.
Converged == Len(hist) = MaxSteps => \E i \in Calls : RetComps(i) = Target

(* C30: repeating current = MoveTowards(current, target, d) with a fixed
   d > 0 from any current other than target, the distance to target
   strictly decreases at each step, current has exactly the components
   of target after finitely many steps (here: within MaxSteps, which is
   more than distance / d), and every later step leaves current equal to
   target, for each of Vector2, Vector3 and Vector4. *)
C30_SteppingConverges ==
    /\ []Converged
    /\ [][StepsNearer /\ StaysAtTarget]_vars

====
